---- MODULE Spec2Model ----
(***************************************************************************)
(* Model of user-spray: the import-grouping engine.                        *)
(*   - the prefix-merge tree built by tree::Visitor (src/src/tree/mod.rs)  *)
(*   - the path-tree walker walk_use_tree (src/src/tree/walk.rs)           *)
(*   - the bucketing of a run of imports, UseMap (src/src/map/mod.rs)      *)
(*   - the driver format (src/src/lib.rs)                                  *)
(***************************************************************************)
EXTENDS Integers, Sequences, FiniteSets, TLC

VARIABLES
    current_path,   \* tree::Visitor.current_path : Vec<Ident>
    tree,           \* tree::Visitor.tree : Tree
    status,         \* "running", or "panicked" once a todo!() was hit
    log,            \* history: the (path, name) pairs visit_name has received
    input,          \* the UseTree handed to walk_use_tree
    stack,          \* walk_use_tree's pending work: its call stack, top first
    file,           \* format: the input text, a sequence of bytes
    output,         \* format: the text written to the sink so far
    origin,         \* history: for each byte of output, the index in file it
                    \* was copied from, or 0 when format generated it
    fpc,            \* format: where the call stands
    next_item,      \* format: position of the `items` iterator
    last_use_span,  \* format: Option<Span> of the previous run
    span,           \* format: span of the run being rewritten
    use_map,        \* format: the UseMap of the run
    category_maps,  \* format: what use_map.take gave for the three categories
    cat_i,          \* format: index of the category emitted next
    pass,           \* "first", or "second" when file is the first pass's output
    operands,       \* the arguments a function of map or map::key is called with
    answer          \* Option of what it returned

treeVars == <<current_path, tree, status, log>>
walkVars == <<input, stack>>
formatVars == <<file, output, origin, fpc, next_item,
                last_use_span, span, use_map, category_maps, cat_i, pass>>

pureVars == <<operands, answer>>

vars == <<current_path, tree, status, log, input, stack, file,
          output, origin, fpc, next_item, last_use_span, span, use_map,
          category_maps, cat_i, pass, operands, answer>>

(***************************************************************************)
(* Bounds of the model.                                                    *)
(***************************************************************************)
MaxDepth == 2       \* longest current_path explored
MaxVisits == 2      \* visit_name calls per behaviour
MaxNodes == 4       \* syntax nodes of a walked UseTree
MaxFileLen == 4     \* tokens of a formatted file

Idents == {"a", "b"}

(***************************************************************************)
(* Option<T>                                                               *)
(***************************************************************************)
None == [some |-> FALSE]
Some(v) == [some |-> TRUE, v |-> v]

Min(S) == CHOOSE x \in S : \A y \in S : x <= y

(***************************************************************************)
(* map::key::Name                                                          *)
(***************************************************************************)
NameIdent(i) == [k |-> "Ident", ident |-> i]
NameGlob == [k |-> "Glob"]
NameRename(i, r) == [k |-> "Rename", ident |-> i, rename |-> r]

self_ == NameIdent("self")

as_ident(name) == IF name.k = "Ident" THEN Some(name.ident) ELSE None

\* The names handed to visit_name.  A renamed name takes the arms the
\* wildcard takes (as_ident is None for both), so the wildcard stands for it.
Names == {NameIdent(i) : i \in Idents} \cup {self_, NameGlob}

(***************************************************************************)
(* syn::UseTree                                                            *)
(***************************************************************************)
UsePath(ident, t) == [kind |-> "Path", ident |-> ident, tree |-> t]
UseName(ident) == [kind |-> "Name", ident |-> ident]
UseRename(ident, rename) == [kind |-> "Rename", ident |-> ident, rename |-> rename]
UseGlob == [kind |-> "Glob"]
UseGroup(items) == [kind |-> "Group", items |-> items]

(***************************************************************************)
(* tree::Node, tree::GroupOrNode, tree::Group, tree::Tree                  *)
(***************************************************************************)
Leaf(name) == [kind |-> "Leaf", name |-> name]
Parent(ident, child) == [kind |-> "Parent", ident |-> ident, child |-> child]
GroupOf(children) == [kind |-> "Group", children |-> children]

DefaultGroup == GroupOf(<<>>)
DefaultTree == [root |-> DefaultGroup]

self_leaf == Leaf(self_)
new_with_self == GroupOf(<<self_leaf>>)

parent_ident(node) ==
    IF node.kind = "Parent" THEN Some(node.ident) ELSE None

leaf_ident(node) ==
    IF node.kind = "Leaf" /\ node.name.k = "Ident"
    THEN Some(node.name.ident)
    ELSE None

\* A lookup that never finds the child.
find_child_by_ident_never(group, ident) == 0

\* A search that takes a leaf of that name as well.
find_child_by_ident_or_leaf(group, ident) ==
    LET hits == {i \in DOMAIN group.children :
                    \/ parent_ident(group.children[i]) = Some(ident)
                    \/ leaf_ident(group.children[i]) = Some(ident)}
    IN  IF hits = {} THEN 0 ELSE Min(hits)

\* Index of the first child that is a Parent named ident; 0 stands for None.
find_child_by_ident(group, ident) ==
    LET hits == {i \in DOMAIN group.children :
                    parent_ident(group.children[i]) = Some(ident)}
    IN  IF hits = {} THEN 0 ELSE Min(hits)

(***************************************************************************)
(* The cursor `cur` of visit_name is a shared pointer into the tree.  It   *)
(* is modelled by its position: the root group, or the node reached by a   *)
(* sequence of child indices from the root group.                          *)
(***************************************************************************)
CurRoot == [kind |-> "Group"]
CurNode(at) == [kind |-> "Node", at |-> at]

RECURSIVE NodeAt(_, _)
NodeAt(group, at) ==
    LET n == group.children[Head(at)]
    IN  IF Len(at) = 1 THEN n ELSE NodeAt(n.child, Tail(at))

RECURSIVE ReplaceAt(_, _, _)
ReplaceAt(group, at, new) ==
    LET i == Head(at)
        n == group.children[i]
    IN  GroupOf([group.children EXCEPT ![i] =
            IF Len(at) = 1
            THEN new
            ELSE Parent(n.ident, ReplaceAt(n.child, Tail(at), new))])

PushChild(group, node) == GroupOf(Append(group.children, node))

Walked(root, cur, todo) == [root |-> root, cur |-> cur, todo |-> todo]

\* One iteration of `for segment in &self.current_path`.
descend_step(root, cur, segment) ==
    IF cur.kind = "Group"
    THEN LET idx == find_child_by_ident(root, segment)
         IN  IF idx # 0
             THEN Walked(root, CurNode(<<idx>>), FALSE)
             ELSE Walked(PushChild(root, Parent(segment, DefaultGroup)),
                         CurNode(<<Len(root.children) + 1>>), FALSE)
    ELSE LET node == NodeAt(root, cur.at)
         IN  IF leaf_ident(node) = Some(segment)
             THEN Walked(ReplaceAt(root, cur.at, Parent(segment, new_with_self)),
                         cur, FALSE)
             ELSE IF node.kind = "Parent"
             THEN IF node.child.kind = "Group"
                  THEN LET idx == find_child_by_ident(node.child, segment)
                       IN  IF idx # 0
                           THEN Walked(root, CurNode(Append(cur.at, idx)), FALSE)
                           ELSE Walked(
                                  ReplaceAt(root, cur.at,
                                      Parent(node.ident,
                                          PushChild(node.child,
                                              Parent(segment, DefaultGroup)))),
                                  CurNode(Append(cur.at, Len(node.child.children) + 1)),
                                  FALSE)
                  ELSE Walked(root, cur, TRUE)
             ELSE Walked(root, cur, TRUE)

RECURSIVE descend(_, _)
descend(w, segments) ==
    IF segments = <<>> \/ w.todo
    THEN w
    ELSE descend(descend_step(w.root, w.cur, Head(segments)), Tail(segments))

\* The final `match dbg!(cur)` of visit_name.
insert_name(root, cur, name) ==
    IF cur.kind = "Group"
    THEN Walked(root, cur, TRUE)
    ELSE LET node == NodeAt(root, cur.at)
         IN  IF node.kind = "Parent"
             THEN IF node.child.kind = "Group"
                  THEN LET group == node.child
                           id == as_ident(name)
                           hits == IF id.some
                                   THEN {i \in DOMAIN group.children :
                                           /\ group.children[i].kind = "Parent"
                                           /\ group.children[i].ident = id.v
                                           /\ group.children[i].child.kind = "Group"}
                                   ELSE {}
                       IN  IF hits # {}
                           THEN LET i == Min(hits)
                                    c == group.children[i]
                                IN  Walked(ReplaceAt(root, Append(cur.at, i),
                                               Parent(c.ident, PushChild(c.child, self_leaf))),
                                           cur, FALSE)
                           ELSE Walked(ReplaceAt(root, cur.at,
                                           Parent(node.ident, PushChild(group, Leaf(name)))),
                                       cur, FALSE)
                  ELSE Walked(root, cur, TRUE)
             ELSE Walked(root, cur, TRUE)

\* The outcome of visit_name: the tree, and whether a todo!() was hit.
Inserted(w) == [tree |-> [root |-> w.root], todo |-> w.todo]

InsertAfterDescent(w, name) ==
    IF w.todo THEN Inserted(w) ELSE Inserted(insert_name(w.root, w.cur, name))

\* Visitor::visit_name as a function of the tree, the current path and the name.
insert(t, path, name) ==
    InsertAfterDescent(descend(Walked(t.root, CurRoot, FALSE), path), name)

(***************************************************************************)
(* The parts of the state a specification leaves alone.                    *)
(***************************************************************************)
\* No function of map or map::key is being called.
PureIdle == operands = <<>> /\ answer = None

WalkIdle ==
    /\ input = UseGroup(<<>>)
    /\ stack = <<>>

FormatIdle ==
    /\ file = <<>>
    /\ output = <<>>
    /\ origin = <<>>
    /\ fpc = "idle"
    /\ next_item = 1
    /\ last_use_span = None
    /\ span = None
    /\ use_map = <<>>
    /\ category_maps = <<>>
    /\ cat_i = 1
    /\ pass = "first"

(***************************************************************************)
(* Visitor: the three callbacks walk_use_tree drives.                      *)
(***************************************************************************)
enter_path(ident) ==
    /\ current_path' = Append(current_path, ident)
    /\ UNCHANGED <<tree, status, log>>

\* A leave_path that forgets to pop.
leave_path_keeps ==
    /\ status' = IF current_path = <<>> THEN "panicked" ELSE status
    /\ UNCHANGED <<current_path, tree, log>>

\* pop().unwrap(): the last identifier is dropped, and on an empty path the
\* unwrap of None panics.
leave_path ==
    IF current_path = <<>>
    THEN /\ status' = "panicked"
         /\ UNCHANGED <<current_path, tree, log>>
    ELSE /\ current_path' = SubSeq(current_path, 1, Len(current_path) - 1)
         /\ UNCHANGED <<tree, status, log>>

visit_name(name) ==
    /\ \E r \in {insert(tree, current_path, name)} :
          /\ tree' = r.tree
          /\ status' = IF r.todo THEN "panicked" ELSE "running"
    /\ log' = Append(log, <<current_path, name>>)
    /\ UNCHANGED current_path

VisitorInit ==
    /\ current_path = <<>>
    /\ tree = DefaultTree
    /\ status = "running"
    /\ log = <<>>

(***************************************************************************)
(* Spec: the Visitor under every sequence of callbacks a walk can make.    *)
(***************************************************************************)
EnterPath ==
    /\ status = "running"
    /\ Len(current_path) < MaxDepth
    /\ \E ident \in Idents : enter_path(ident)
    /\ UNCHANGED <<walkVars, formatVars, pureVars>>

\* walk_use_tree calls leave_path only after the enter_path of the same
\* UsePath, so a walk never leaves an empty path.
LeavePath ==
    /\ status = "running"
    /\ current_path # <<>>
    /\ leave_path
    /\ UNCHANGED <<walkVars, formatVars, pureVars>>

VisitName ==
    /\ status = "running"
    /\ Len(log) < MaxVisits
    /\ \E name \in Names : visit_name(name)
    /\ UNCHANGED <<walkVars, formatVars, pureVars>>

Init ==
    /\ VisitorInit
    /\ WalkIdle
    /\ PureIdle
    /\ FormatIdle

Next == EnterPath \/ LeavePath \/ VisitName

Spec == Init /\ [][Next]_vars

(***************************************************************************)
(* walk_use_tree.  The recursion is run on an explicit stack: a frame is   *)
(* a tree still to be walked, or the leave_path call that follows the      *)
(* walk of a UsePath's subtree.                                            *)
(***************************************************************************)
WalkFrame(t) == [op |-> "walk", tree |-> t]
LeaveFrame == [op |-> "leave"]

TopIs(kind) ==
    /\ status = "running"
    /\ stack # <<>>
    /\ Head(stack).op = "walk"
    /\ Head(stack).tree.kind = kind

\* UseTree::Path: enter_path, then the subtree, then leave_path.
WalkPath ==
    /\ TopIs("Path")
    /\ enter_path(Head(stack).tree.ident)
    /\ stack' = <<WalkFrame(Head(stack).tree.tree), LeaveFrame>> \o Tail(stack)
    /\ UNCHANGED <<input, formatVars, pureVars>>

WalkLeave ==
    /\ status = "running"
    /\ stack # <<>>
    /\ Head(stack).op = "leave"
    /\ leave_path
    /\ stack' = Tail(stack)
    /\ UNCHANGED <<input, formatVars, pureVars>>

WalkName ==
    /\ TopIs("Name")
    /\ visit_name(NameIdent(Head(stack).tree.ident))
    /\ stack' = Tail(stack)
    /\ UNCHANGED <<input, formatVars, pureVars>>

WalkRename ==
    /\ TopIs("Rename")
    /\ visit_name(NameRename(Head(stack).tree.ident, Head(stack).tree.rename))
    /\ stack' = Tail(stack)
    /\ UNCHANGED <<input, formatVars, pureVars>>

WalkGlob ==
    /\ TopIs("Glob")
    /\ visit_name(NameGlob)
    /\ stack' = Tail(stack)
    /\ UNCHANGED <<input, formatVars, pureVars>>

\* UseTree::Group: the items, in order.
WalkGroup ==
    /\ TopIs("Group")
    /\ stack' = [i \in DOMAIN Head(stack).tree.items |->
                    WalkFrame(Head(stack).tree.items[i])] \o Tail(stack)
    /\ UNCHANGED <<input, treeVars, formatVars, pureVars>>

(***************************************************************************)
(* The trees walked: every UseTree of at most MaxNodes syntax nodes over   *)
(* two identifiers, and the tree of walk.rs's own test.                    *)
(***************************************************************************)
WalkLeaves == {UseName("a"), UseName("b"), UseGlob, UseRename("a", "b")}

RECURSIVE TreesOfSize(_), ForestsOfSize(_)
TreesOfSize(n) ==
    IF n < 1 THEN {}
    ELSE (IF n = 1 THEN WalkLeaves ELSE {})
         \cup {UsePath(i, t) : i \in Idents, t \in TreesOfSize(n - 1)}
         \cup {UseGroup(f) : f \in ForestsOfSize(n - 1)}

ForestsOfSize(n) ==
    IF n = 0 THEN {<<>>}
    ELSE UNION {{<<t>> \o f : t \in TreesOfSize(k), f \in ForestsOfSize(n - k)}
                    : k \in 1..n}

\* use std::{a, b::c, d::{e, f}};
TestVisitTree ==
    UsePath("std", UseGroup(<<
        UseName("a"),
        UsePath("b", UseName("c")),
        UsePath("d", UseGroup(<<UseName("e"), UseName("f")>>))>>))

WalkInputs == UNION {TreesOfSize(n) : n \in 1..MaxNodes} \cup {TestVisitTree}

WalkInit ==
    /\ VisitorInit
    /\ input \in WalkInputs
    /\ stack = <<WalkFrame(input)>>
    /\ FormatIdle
    /\ PureIdle

WalkNext ==
    WalkPath \/ WalkLeave \/ WalkName \/ WalkRename \/ WalkGlob \/ WalkGroup

SpecWalk == WalkInit /\ [][WalkNext]_vars

(***************************************************************************)
(* walk_use_tree and Tree::from_iter as functions, for the callers that    *)
(* need the finished tree.  A visitor is [current_path, tree, todo]; the   *)
(* recursion of walk_use_tree runs on an explicit stack of frames.         *)
(***************************************************************************)
VisitorDefault == [current_path |-> <<>>, tree |-> DefaultTree, todo |-> FALSE]

VisitorAfter(v, r) == [v EXCEPT !.tree = r.tree, !.todo = r.todo]

visitor_visit(v, name) == VisitorAfter(v, insert(v.tree, v.current_path, name))

\* The Name a leaf of the syntax is visited as.
LeafName(t) ==
    IF t.kind = "Name" THEN NameIdent(t.ident)
    ELSE IF t.kind = "Rename" THEN NameRename(t.ident, t.rename)
    ELSE NameGlob

\* What is left to do after the top frame.
FramesAfter(frames) ==
    IF Head(frames).op = "leave" THEN Tail(frames)
    ELSE IF Head(frames).tree.kind = "Path"
    THEN <<[op |-> "walk", tree |-> Head(frames).tree.tree], [op |-> "leave"]>>
            \o Tail(frames)
    ELSE IF Head(frames).tree.kind = "Group"
    THEN [i \in DOMAIN Head(frames).tree.items |->
            [op |-> "walk", tree |-> Head(frames).tree.items[i]]] \o Tail(frames)
    ELSE Tail(frames)

\* The visitor after the callback the top frame makes.
VisitorAfterFrame(frame, v) ==
    IF frame.op = "leave"
    THEN [v EXCEPT !.current_path = SubSeq(@, 1, Len(@) - 1)]
    ELSE IF frame.tree.kind = "Path"
    THEN [v EXCEPT !.current_path = Append(@, frame.tree.ident)]
    ELSE IF frame.tree.kind = "Group" THEN v
    ELSE visitor_visit(v, LeafName(frame.tree))

\* The frames of the walker's stack (below) worked off down to none.
RECURSIVE walk_frames(_, _)
walk_frames(frames, v) ==
    IF frames = <<>> \/ v.todo THEN v
    ELSE walk_frames(FramesAfter(frames), VisitorAfterFrame(Head(frames), v))

walk_use_tree(t, v) == walk_frames(<<[op |-> "walk", tree |-> t]>>, v)

\* Tree::from_iter: one visitor, the trees walked one after another.
RECURSIVE walk_each(_, _)
walk_each(trees, v) ==
    IF trees = <<>> THEN v
    ELSE walk_each(Tail(trees), walk_use_tree(Head(trees), v))

from_iter(trees) == walk_each(trees, VisitorDefault)

(***************************************************************************)
(* Ordering of identifiers: Ident's Ord compares the identifiers' text.    *)
(* The identifiers of the model, in ascending byte order.                  *)
(***************************************************************************)
IdentOrder ==
    <<"a", "alloc", "b", "c", "core", "crate", "d", "e", "f", "self", "std", "super">>

IdentRank(i) == CHOOSE n \in DOMAIN IdentOrder : IdentOrder[n] = i

CmpInt(x, y) == IF x < y THEN "Less" ELSE IF x > y THEN "Greater" ELSE "Equal"
CmpBool(x, y) == CmpInt(IF x THEN 1 ELSE 0, IF y THEN 1 ELSE 0)
CmpIdent(x, y) == CmpInt(IdentRank(x), IdentRank(y))

\* Ordering::then: the first comparison that is not Equal decides.
Then(ord, next) == IF ord = "Equal" THEN next ELSE ord

\* Iterator::cmp over identifiers: lexicographic.
RECURSIVE CmpIdentSeq(_, _)
CmpIdentSeq(x, y) ==
    IF x = <<>> THEN (IF y = <<>> THEN "Equal" ELSE "Less")
    ELSE IF y = <<>> THEN "Greater"
    ELSE Then(CmpIdent(Head(x), Head(y)), CmpIdentSeq(Tail(x), Tail(y)))

(***************************************************************************)
(* map::key: LeadingColon, Name's derived order, UseKey and UseKey::cmp    *)
(***************************************************************************)
LeadingColonFrom(present) == IF present THEN "Yes" ELSE "No"
LeadingColonInto(leading_colon) == leading_colon = "Yes"

CmpLeadingColon(x, y) == CmpBool(x = "Yes", y = "Yes")

NameVariant(name) ==
    IF name.k = "Ident" THEN 0 ELSE IF name.k = "Glob" THEN 1 ELSE 2

CmpName(x, y) ==
    Then(CmpInt(NameVariant(x), NameVariant(y)),
         IF x.k = "Ident" THEN CmpIdent(x.ident, y.ident)
         ELSE IF x.k = "Rename"
         THEN Then(CmpIdent(x.ident, y.ident), CmpIdent(x.rename, y.rename))
         ELSE "Equal")

VisPublic == [k |-> "Public"]
VisInherited == [k |-> "Inherited"]
VisRestricted(in_token, leading_colon, segments) ==
    [k |-> "Restricted", in_token |-> in_token,
     leading_colon |-> leading_colon, segments |-> segments]

UseKey(vis, leading_colon, name) ==
    [vis |-> vis, leading_colon |-> leading_colon, name |-> name]

\* The match with the arm for (Restricted, Inherited) returning Less.
CmpVisRestrictedBelow(x, y) ==
    IF x.k = "Public" /\ y.k = "Public" THEN "Equal"
    ELSE IF x.k = "Inherited" /\ y.k = "Inherited" THEN "Equal"
    ELSE IF x.k = "Restricted" /\ y.k = "Restricted" /\ x = y THEN "Equal"
    ELSE IF x.k = "Public" THEN "Greater"
    ELSE IF x.k = "Inherited" THEN "Less"
    ELSE IF y.k = "Public" THEN "Less"
    ELSE IF y.k = "Inherited" THEN "Less"
    ELSE Then(CmpBool(x.in_token, y.in_token),
         Then(CmpBool(x.leading_colon, y.leading_colon),
              CmpIdentSeq(x.segments, y.segments)))

\* The `match (&self.vis, &other.vis)` of UseKey::cmp; Equal stands for the
\* arms that fall through to the comparisons after the match.
CmpVis(x, y) ==
    IF x.k = "Public" /\ y.k = "Public" THEN "Equal"
    ELSE IF x.k = "Inherited" /\ y.k = "Inherited" THEN "Equal"
    ELSE IF x.k = "Restricted" /\ y.k = "Restricted" /\ x = y THEN "Equal"
    ELSE IF x.k = "Public" THEN "Greater"
    ELSE IF x.k = "Inherited" THEN "Less"
    ELSE IF y.k = "Public" THEN "Less"
    ELSE IF y.k = "Inherited" THEN "Greater"
    ELSE Then(CmpBool(x.in_token, y.in_token),
         Then(CmpBool(x.leading_colon, y.leading_colon),
              CmpIdentSeq(x.segments, y.segments)))

cmp(self, other) ==
    Then(CmpVis(self.vis, other.vis),
    Then(CmpLeadingColon(self.leading_colon, other.leading_colon),
         CmpName(self.name, other.name)))

(***************************************************************************)
(* map: Category, UseMap                                                   *)
(***************************************************************************)
Categories == {"Std", "External", "Crate"}

\* A categorizer that looks at the alias of a renamed name.
CategoryFromAlias(name) ==
    IF name.k = "Glob" THEN "External"
    ELSE IF name.k = "Rename" /\ name.rename \in {"std", "core", "alloc"} THEN "Std"
    ELSE IF name.k = "Rename" /\ name.rename \in {"self", "super", "crate"} THEN "Crate"
    ELSE IF name.k = "Rename" THEN "External"
    ELSE IF name.ident \in {"std", "core", "alloc"} THEN "Std"
    ELSE IF name.ident \in {"self", "super", "crate"} THEN "Crate"
    ELSE "External"

\* Category::from(&Name)
CategoryFrom(name) ==
    IF name.k = "Glob" THEN "External"
    ELSE IF name.ident \in {"std", "core", "alloc"} THEN "Std"
    ELSE IF name.ident \in {"self", "super", "crate"} THEN "Crate"
    ELSE "External"

ItemUse(attrs, vis, leading_colon, t) ==
    [attrs |-> attrs, vis |-> vis, leading_colon |-> leading_colon, tree |-> t]

\* A UseMap: for each category its HashMap<UseKey, Vec<ItemUse>>, held as
\* the set of its entries; a category without entry has the empty map.
Bucket(key, items) == [key |-> key, items |-> items]
UseMapDefault == [c \in Categories |-> {}]

\* The `name:` field of the key built by UseMap::extend.
KeyName(t) ==
    IF t.kind \in {"Path", "Name"} THEN Some(NameIdent(t.ident))
    ELSE IF t.kind = "Rename" THEN Some(NameRename(t.ident, t.rename))
    ELSE IF t.kind = "Glob" THEN Some(NameGlob)
    ELSE None

\* The key UseMap::extend files an item under.
KeyOf(item) ==
    UseKey(item.vis, LeadingColonFrom(item.leading_colon), KeyName(item.tree).v)

\* self.0.entry(category).or_default().entry(key).or_default().push(item)
PushItem(map, category, key, item) ==
    LET inner == map[category]
        old == {b \in inner : b.key = key}
        items == IF old = {} THEN <<>> ELSE (CHOOSE b \in old : TRUE).items
    IN  [map EXCEPT ![category] =
            (inner \ old) \cup {Bucket(key, Append(items, item))}]

\* An extend that does not look at the attributes.
RECURSIVE extend_unasserted(_, _)
extend_unasserted(map, items) ==
    IF items = <<>> THEN [map |-> map, panicked |-> FALSE]
    ELSE IF ~KeyName(Head(items).tree).some THEN [map |-> map, panicked |-> TRUE]
    ELSE extend_unasserted(
            PushItem(map, CategoryFrom(KeyOf(Head(items)).name), KeyOf(Head(items)),
                     Head(items)),
            Tail(items))

\* UseMap::extend; panicked when an assertion or todo!() stopped it.
RECURSIVE extend(_, _)
extend(map, items) ==
    IF items = <<>> THEN [map |-> map, panicked |-> FALSE]
    ELSE LET item == Head(items)
         IN  IF item.attrs # <<>> THEN [map |-> map, panicked |-> TRUE]
             ELSE IF ~KeyName(item.tree).some THEN [map |-> map, panicked |-> TRUE]
             ELSE LET key == KeyOf(item)
                  IN  extend(PushItem(map, CategoryFrom(key.name), key, item),
                             Tail(items))

\* UseMap::take: the entries of the category, sorted by key.  The HashMap
\* yields them in any order and sort_by orders them by UseKey::cmp.
take(map, category) ==
    LET entries == map[category]
        n == Cardinality(entries)
    IN  {order \in [1..n -> entries] :
            /\ \A i \in 1..n, j \in 1..n : i # j => order[i] # order[j]
            /\ \A i \in 1..(n - 1) :
                  cmp(order[i].key, order[i + 1].key) # "Greater"}

(***************************************************************************)
(* impl From<Tree> for UseTree, the conversion format applies to the tree  *)
(* of a bucket (FromIterator<UseTree> and the conversion to UseTree are    *)
(* implemented for Tree alone).  Its body is `todo!()` after a draft in    *)
(* comments: the call panics and returns no syntax.                        *)
(***************************************************************************)
use_tree_from(t) == None

(***************************************************************************)
(* The text.  A text is a sequence of bytes; a byte is the k-th byte of a  *)
(* token.  The tokens: a line break, the item `fn f(){}`, an import        *)
(* statement (the text display.rs renders for that ItemUse, after          *)
(* `#[cfg] ` when it has the attribute), the byte order mark U+FEFF (one   *)
(* character of three bytes), the `#!` that starts a shebang line, and     *)
(* `use a::b` without its semicolon, which is no item.  Spans are byte     *)
(* ranges (Span::byte_range), as a build with proc-macro2's                *)
(* span-locations gives them; lib.rs does not compile without it.          *)
(***************************************************************************)
WS == [t |-> "ws"]
OtherItem == [t |-> "item"]
UseTok(item) == [t |-> "use", item |-> item]
Bom == [t |-> "bom"]
Shebang == [t |-> "shebang"]
Unparsed == [t |-> "text"]

\* The number of bytes display.rs writes for a tree, a path, a visibility
\* and an import.
RECURSIVE TreeLen(_), GroupLen(_)
TreeLen(t) ==
    IF t.kind = "Path" THEN Len(t.ident) + 2 + TreeLen(t.tree)
    ELSE IF t.kind = "Name" THEN Len(t.ident)
    ELSE IF t.kind = "Rename" THEN Len(t.ident) + 4 + Len(t.rename)
    ELSE IF t.kind = "Glob" THEN 1
    ELSE 2 + GroupLen(t.items)

GroupLen(items) ==
    IF items = <<>> THEN 0
    ELSE TreeLen(Head(items))
            + (IF Len(items) > 1 THEN 2 + GroupLen(Tail(items)) ELSE 0)

RECURSIVE PathLen(_)
PathLen(segments) ==
    IF segments = <<>> THEN 0
    ELSE Len(Head(segments))
            + (IF Len(segments) > 1 THEN 2 + PathLen(Tail(segments)) ELSE 0)

VisLen(vis) ==
    IF vis.k = "Public" THEN 4
    ELSE IF vis.k = "Inherited" THEN 0
    ELSE 4 + (IF vis.in_token THEN 3 ELSE 0) + (IF vis.leading_colon THEN 2 ELSE 0)
           + PathLen(vis.segments) + 2

RECURSIVE AttrsLen(_)
AttrsLen(attrs) ==
    IF attrs = <<>> THEN 0 ELSE Len(Head(attrs)) + 4 + AttrsLen(Tail(attrs))

ItemUseLen(item) ==
    AttrsLen(item.attrs) + VisLen(item.vis) + 4
        + (IF item.leading_colon THEN 2 ELSE 0) + TreeLen(item.tree) + 1

\* The number of bytes of a token.
Width(tok) ==
    IF tok.t = "ws" THEN 1
    ELSE IF tok.t = "bom" THEN 3
    ELSE IF tok.t = "shebang" THEN 2
    ELSE IF tok.t = "use" THEN ItemUseLen(tok.item)
    ELSE 8

Byte(tok, part) == [tok |-> tok, part |-> part]

TextOf(tok) == [k \in 1..Width(tok) |-> Byte(tok, k)]

RECURSIVE Text(_)
Text(tokens) ==
    IF tokens = <<>> THEN <<>> ELSE TextOf(Head(tokens)) \o Text(Tail(tokens))

\* str::is_char_boundary: the offset is not inside the byte order mark.
is_char_boundary(text, k) ==
    \/ k = 0
    \/ k = Len(text)
    \/ /\ k \in 1..Len(text)
       /\ ~(text[k].tok.t = "bom" /\ text[k].part < Width(Bom))

\* A range that leaves out its first byte.
SliceAfterFirst(text, from, to) ==
    IF from <= to /\ is_char_boundary(text, from) /\ is_char_boundary(text, to)
    THEN Some(SubSeq(text, from + 2, to))
    ELSE None

\* &text[from..to], or None where the slice panics.
Slice(text, from, to) ==
    IF from <= to /\ is_char_boundary(text, from) /\ is_char_boundary(text, to)
    THEN Some(SubSeq(text, from + 1, to))
    ELSE None

SliceIndices(from, to) == [i \in 1..(to - from) |-> from + i]

\* The length of the byte order mark that starts the text after its
\* first `from` bytes, 0 when there is none.
BomAt(text, from) ==
    IF Len(text) >= from + Width(Bom)
        /\ \A k \in 1..Width(Bom) : text[from + k] = Byte(Bom, k)
    THEN Width(Bom) ELSE 0

\* The bytes syn::parse_file drops from the start of the text before it
\* parses: the byte order mark, then a shebang line up to its line break.
BomLen(text) == BomAt(text, 0)

StartsWithShebang(text, from) ==
    /\ Len(text) >= from + Width(Shebang)
    /\ \A k \in 1..Width(Shebang) : text[from + k] = Byte(Shebang, k)

ShebangEnd(text, from) ==
    LET breaks == {i \in (from + 1)..Len(text) : text[i].tok.t = "ws"}
    IN  IF breaks = {} THEN Len(text) ELSE Min(breaks) - 1

Stripped(text) ==
    IF StartsWithShebang(text, BomLen(text))
    THEN ShebangEnd(text, BomLen(text))
    ELSE BomLen(text)

\* The byte at i starts a whole import or item.
WholeItemAt(text, i) ==
    /\ text[i].tok.t \in {"use", "item"}
    /\ i + Width(text[i].tok) - 1 <= Len(text)
    /\ \A k \in 1..Width(text[i].tok) : text[i + k - 1] = Byte(text[i].tok, k)

\* The text from byte i on is a sequence of items and line breaks.
RECURSIVE Parses(_, _)
Parses(text, i) ==
    IF i > Len(text) THEN TRUE
    ELSE IF text[i].tok.t = "ws" THEN Parses(text, i + 1)
    ELSE IF WholeItemAt(text, i) THEN Parses(text, i + Width(text[i].tok))
    ELSE FALSE

\* The items from byte i on; their spans are offsets into the text that is
\* left after the first `off` bytes were dropped.
RECURSIVE ParseFrom(_, _, _)
ParseFrom(text, i, off) ==
    IF i > Len(text) THEN <<>>
    ELSE IF text[i].tok.t = "ws" THEN ParseFrom(text, i + 1, off)
    ELSE <<[token |-> text[i].tok,
            start |-> i - 1 - off,
            end |-> i - 1 - off + Width(text[i].tok)]>>
            \o ParseFrom(text, i + Width(text[i].tok), off)

\* Where the lexer starts: it skips a byte order mark at the start of the
\* text it is given, and counts it in the offsets.
LexStart(text) == Stripped(text) + BomAt(text, Stripped(text))

\* syn::parse_file: Err, or the items of the file with their spans.
parse_file(text) ==
    IF Parses(text, LexStart(text) + 1)
    THEN [ok |-> TRUE, items |-> ParseFrom(text, LexStart(text) + 1, Stripped(text))]
    ELSE [ok |-> FALSE, items |-> <<>>]

IsUse(parsed) == parsed.token.t = "use"

\* writeln!(output, "{}", item.as_display()) for the statement of one key.
StatementText(key, t) ==
    TextOf(UseTok(ItemUse(<<>>, key.vis, LeadingColonInto(key.leading_colon), t)))
        \o <<Byte(WS, 1)>>

Emitted(out, panicked) == [out |-> out, panicked |-> panicked]

BucketTrees(bucket) == [i \in DOMAIN bucket.items |-> bucket.items[i].tree]

\* The body of `for (key, items) in category_map`, bucket after bucket:
\* the tree of the bucket, its conversion to syntax, the statement written
\* by writeln!.  Panicked when building the tree or converting it hit a
\* todo!().
RECURSIVE emit_buckets(_, _)
EmitBuilt(buckets, out, built) ==
    IF built.todo \/ ~use_tree_from(built.tree).some
    THEN Emitted(out, TRUE)
    ELSE emit_buckets(Tail(buckets),
            out \o StatementText(Head(buckets).key, use_tree_from(built.tree).v))

emit_buckets(buckets, out) ==
    IF buckets = <<>>
    THEN Emitted(out, FALSE)
    ELSE EmitBuilt(buckets, out, from_iter(BucketTrees(Head(buckets))))

\* The text of one category: its statements, then an empty line.
CategoryText(emitted) ==
    IF emitted.panicked THEN emitted
    ELSE Emitted(emitted.out \o <<Byte(WS, 1)>>, FALSE)

emit_category(buckets) == CategoryText(emit_buckets(buckets, <<>>))

\* [Category::Std, Category::External, Category::Crate]
CategoryOrder == <<"Std", "External", "Crate">>

Zeros(n) == [i \in 1..n |-> 0]

(***************************************************************************)
(* format, one action per stage.                                           *)
(***************************************************************************)
\* let parsed_file = syn::parse_file(file)?;
ParseFile ==
    /\ fpc = "parse"
    /\ fpc' = IF parse_file(file).ok THEN "scan" ELSE "error"
    /\ UNCHANGED <<file, output, origin, next_item,
                   last_use_span, span, use_map, category_maps, cat_i, pass>>
    /\ UNCHANGED <<treeVars, walkVars, pureVars>>

\* Skip the items that are no imports, collect the run of imports that
\* follows, join their spans and bucket them.
CollectRun ==
    /\ fpc = "scan"
    /\ LET parsed == parse_file(file).items
           uses == {i \in next_item..Len(parsed) : IsUse(parsed[i])}
       IN  IF uses = {}
           THEN /\ fpc' = "tail"
                /\ next_item' = Len(parsed) + 1
                /\ UNCHANGED <<span, use_map>>
           ELSE LET first == Min(uses)
                    stops == {i \in first..Len(parsed) : ~IsUse(parsed[i])}
                    last == IF stops = {} THEN Len(parsed) ELSE Min(stops) - 1
                    run == [i \in 1..(last - first + 1) |->
                              parsed[first + i - 1].token.item]
                    collected == extend(UseMapDefault, run)
                IN  /\ next_item' = IF stops = {} THEN last + 1 ELSE last + 2
                    /\ span' = [start |-> parsed[first].start, end |-> parsed[last].end]
                    /\ use_map' = collected.map
                    /\ fpc' = IF collected.panicked THEN "panicked" ELSE "preceding"
    /\ UNCHANGED <<file, output, origin, last_use_span,
                   category_maps, cat_i, pass>>
    /\ UNCHANGED <<treeVars, walkVars, pureVars>>

\* The end of the previous run, where the text to copy starts.
PrecedingStart ==
    IF last_use_span.some THEN last_use_span.v.end ELSE 0

\* write!(output, "{}", &file[preceding_byte_range])
WritePreceding ==
    /\ fpc = "preceding"
    /\ \E text \in {Slice(file, PrecedingStart, span.start)} :
          IF text.some
          THEN /\ output' = output \o text.v
               /\ origin' = origin
                    \o SliceIndices(PrecedingStart, span.start)
               /\ fpc' = "take"
          ELSE /\ fpc' = "panicked"
               /\ UNCHANGED <<output, origin>>
    /\ last_use_span' = Some(span)
    /\ UNCHANGED <<file, next_item, span, use_map,
                   category_maps, cat_i, pass>>
    /\ UNCHANGED <<treeVars, walkVars, pureVars>>

\* [Std, External, Crate].map(|category| use_map.take(category)): the three
\* categories are taken out of the map before the first of them is written.
TakeCategories ==
    /\ fpc = "take"
    /\ \E std \in take(use_map, CategoryOrder[1]),
          external \in take(use_map, CategoryOrder[2]),
          crate \in take(use_map, CategoryOrder[3]) :
          category_maps' = <<std, external, crate>>
    /\ use_map' = UseMapDefault
    /\ cat_i' = 1
    /\ fpc' = "emit"
    /\ UNCHANGED <<file, output, origin, next_item,
                   last_use_span, span, pass>>
    /\ UNCHANGED <<treeVars, walkVars, pureVars>>

\* One turn of `for category_map in ..`: the statements of the category's
\* buckets in the order take gave them, then an empty line.
EmitCategory ==
    /\ fpc = "emit"
    /\ \E emitted \in {emit_category(category_maps[cat_i])} :
          /\ output' = output \o emitted.out
          /\ origin' = origin \o Zeros(Len(emitted.out))
          /\ fpc' = IF emitted.panicked THEN "panicked"
                    ELSE IF cat_i = Len(CategoryOrder) THEN "scan"
                    ELSE "emit"
    /\ cat_i' = IF cat_i = Len(CategoryOrder) THEN 1 ELSE cat_i + 1
    /\ UNCHANGED <<file, next_item, last_use_span, span,
                   use_map, category_maps, pass>>
    /\ UNCHANGED <<treeVars, walkVars, pureVars>>

\* The text after the last run.
WriteTail ==
    /\ fpc = "tail"
    /\ \E text \in {Slice(file, PrecedingStart, Len(file))} :
          IF text.some
          THEN /\ output' = output \o text.v
               /\ origin' = origin \o SliceIndices(PrecedingStart, Len(file))
               /\ fpc' = "done"
          ELSE /\ fpc' = "panicked"
               /\ UNCHANGED <<output, origin>>
    /\ UNCHANGED <<file, next_item, last_use_span, span,
                   use_map, category_maps, cat_i, pass>>
    /\ UNCHANGED <<treeVars, walkVars, pureVars>>

\* format run again, on the text the first run wrote.
FormatAgain ==
    /\ fpc = "done"
    /\ pass = "first"
    /\ file' = output
    /\ output' = <<>>
    /\ origin' = <<>>
    /\ fpc' = "parse"
    /\ next_item' = 1
    /\ last_use_span' = None
    /\ span' = None
    /\ use_map' = UseMapDefault
    /\ category_maps' = <<>>
    /\ cat_i' = 1
    /\ pass' = "second"
    /\ UNCHANGED <<treeVars, walkVars, pureVars>>

(***************************************************************************)
(* The files formatted: every text of at most MaxFileLen tokens.           *)
(***************************************************************************)
PathAB == UsePath("a", UseName("b"))

UseStmts ==
    { ItemUse(<<>>, VisInherited, FALSE, UsePath("std", UseName("a"))),  \* use std::a;
      ItemUse(<<>>, VisInherited, FALSE, PathAB),                        \* use a::b;
      ItemUse(<<"cfg">>, VisInherited, FALSE, PathAB),                   \* #[cfg] use a::b;
      ItemUse(<<>>, VisInherited, FALSE, UseName("a")) }                 \* use a;

FileTokens ==
    {WS, OtherItem, Bom, Shebang, Unparsed} \cup {UseTok(item) : item \in UseStmts}

Files == {Text(tokens) : tokens \in UNION {[1..n -> FileTokens] : n \in 0..MaxFileLen}}

FormatStart ==
    /\ output = <<>>
    /\ origin = <<>>
    /\ fpc = "parse"
    /\ next_item = 1
    /\ last_use_span = None
    /\ span = None
    /\ use_map = UseMapDefault
    /\ category_maps = <<>>
    /\ cat_i = 1
    /\ pass = "first"

FormatInit ==
    /\ VisitorInit
    /\ WalkIdle
    /\ PureIdle
    /\ file \in Files
    /\ FormatStart

FormatNext ==
    ParseFile \/ CollectRun \/ WritePreceding \/ TakeCategories \/ EmitCategory
        \/ WriteTail

SpecFormat == FormatInit /\ [][FormatNext]_vars

ReformatNext ==
    ParseFile \/ CollectRun \/ WritePreceding \/ TakeCategories \/ EmitCategory
        \/ WriteTail \/ FormatAgain

SpecReformat == FormatInit /\ [][ReformatNext]_vars

(***************************************************************************)
(* The files formatted to look at the keys: the empty file, and one run   *)
(* of imports of `a::b` that differ in visibility and leading separator,   *)
(* and private imports of other paths.                                     *)
(***************************************************************************)
PubCrate == VisRestricted(FALSE, FALSE, <<"crate">>)            \* pub(crate)
PubSelf == VisRestricted(FALSE, FALSE, <<"self">>)              \* pub(self)
PubInCrateA == VisRestricted(TRUE, FALSE, <<"crate", "a">>)     \* pub(in crate::a)
PubInSuper == VisRestricted(TRUE, FALSE, <<"super">>)           \* pub(in super)
PubInColonA == VisRestricted(TRUE, TRUE, <<"a">>)               \* pub(in ::a)

KeyVisibilities ==
    {VisInherited, VisPublic, PubCrate, PubSelf, PubInCrateA, PubInSuper, PubInColonA}

KeyStmts ==
    {ItemUse(<<>>, vis, FALSE, PathAB) : vis \in KeyVisibilities}
        \cup { ItemUse(<<>>, VisInherited, TRUE, PathAB),           \* use ::a::b;
               ItemUse(<<>>, VisInherited, FALSE,
                       UsePath("a", UseName("c"))),                  \* use a::c;
               ItemUse(<<>>, VisInherited, FALSE,
                       UsePath("a", UsePath("b", UseName("c")))),    \* use a::b::c;
               ItemUse(<<>>, VisInherited, FALSE,
                       UsePath("b", UseName("a"))) }                 \* use b::a;

KeyFiles ==
    {Text(tokens) :
        tokens \in UNION {[1..n -> {UseTok(item) : item \in KeyStmts}] :
                            n \in 0..(MaxFileLen - 1)}}

FormatKeysInit ==
    /\ VisitorInit
    /\ WalkIdle
    /\ PureIdle
    /\ file \in KeyFiles
    /\ FormatStart

SpecFormatKeys == FormatKeysInit /\ [][FormatNext]_vars

(***************************************************************************)
(* The conversion called on the tree the visitor has built.                *)
(***************************************************************************)

Serialize ==
    /\ status = "running"
    /\ operands = <<>>
    /\ operands' = <<tree>>
    /\ answer' = use_tree_from(tree)
    /\ status' = IF use_tree_from(tree).some THEN "running" ELSE "panicked"
    /\ UNCHANGED <<current_path, tree, log, walkVars, formatVars>>

SerializeNext == EnterPath \/ LeavePath \/ VisitName \/ Serialize

SpecSerialize == Init /\ [][SerializeNext]_vars

(***************************************************************************)
(* UseKey::cmp called on the keys of a map, as sort_by does in             *)
(* UseMap::take: three keys, compared pairwise.                            *)
(***************************************************************************)
CmpNames == {NameIdent("a"), NameIdent("b"), NameGlob, NameRename("a", "b")}

CmpKeys ==
    {UseKey(vis, lc, name) :
        vis \in KeyVisibilities, lc \in {"No", "Yes"}, name \in CmpNames}

CompareInit ==
    /\ VisitorInit
    /\ WalkIdle
    /\ FormatIdle
    /\ operands \in CmpKeys \X CmpKeys \X CmpKeys
    /\ answer = None

Compare ==
    /\ operands # <<>>
    /\ answer = None
    /\ answer' = Some([ab |-> cmp(operands[1], operands[2]),
                       ba |-> cmp(operands[2], operands[1]),
                       bc |-> cmp(operands[2], operands[3]),
                       ac |-> cmp(operands[1], operands[3])])
    /\ UNCHANGED <<operands, treeVars, walkVars, formatVars>>

SpecCompare == CompareInit /\ [][Compare]_vars

(***************************************************************************)
(* Category::from called on the name UseMap::extend takes from an import:  *)
(* `let category = Category::from(&key.name)`.                             *)
(***************************************************************************)
AllIdents == {IdentOrder[i] : i \in DOMAIN IdentOrder}
Aliases == {"a", "b", "std", "self"}

CategorizeInputs ==
    {UsePath(i, UseName("a")) : i \in AllIdents}
        \cup {UseName(i) : i \in AllIdents}
        \cup {UseRename(i, r) : i \in AllIdents, r \in Aliases}
        \cup {UseGlob}

CategorizeInit ==
    /\ VisitorInit
    /\ WalkIdle
    /\ FormatIdle
    /\ operands \in {<<t>> : t \in CategorizeInputs}
    /\ answer = None

Categorize ==
    /\ operands # <<>>
    /\ answer = None
    /\ answer' = Some(CategoryFrom(KeyName(operands[1]).v))
    /\ UNCHANGED <<operands, treeVars, walkVars, formatVars>>

SpecCategorize == CategorizeInit /\ [][Categorize]_vars

(***************************************************************************)
(* What a tree holds, read off independently of sibling order.             *)
(***************************************************************************)
RECURSIVE Concat(_)
Concat(seqs) == IF seqs = <<>> THEN <<>> ELSE Head(seqs) \o Concat(Tail(seqs))

Range(f) == {f[i] : i \in DOMAIN f}

\* Every node below `group`, depth first: an interior node as its path from
\* the root, a leaf as the path of its group and its name.
RECURSIVE Entries(_, _)
Entries(group, prefix) ==
    Concat([i \in DOMAIN group.children |->
        LET c == group.children[i]
        IN  IF c.kind = "Parent"
            THEN <<[interior |-> Append(prefix, c.ident)]>>
                   \o Entries(c.child, Append(prefix, c.ident))
            ELSE <<[leaf |-> c.name, under |-> prefix]>>])

TreeEntries(t) == Entries(t.root, <<>>)

CountOf(seq, e) == Cardinality({i \in DOMAIN seq : seq[i] = e})

\* Same interior nodes, same leaves under each, as sets.
Equivalent(t1, t2) == Range(TreeEntries(t1)) = Range(TreeEntries(t2))

\* The same, counting how often each entry occurs.
StructurallyEqual(t1, t2) ==
    /\ Equivalent(t1, t2)
    /\ \A e \in Range(TreeEntries(t1)) :
          CountOf(TreeEntries(t1), e) = CountOf(TreeEntries(t2), e)

\* Every group of the tree: the root group and the group of each interior node.
RECURSIVE GroupsBelow(_)
GroupsBelow(group) ==
    {group} \cup UNION {IF group.children[i].kind = "Parent"
                        THEN GroupsBelow(group.children[i].child)
                        ELSE {} : i \in DOMAIN group.children}

InteriorGroups(t) == GroupsBelow(t.root) \ {t.root}

RECURSIVE FoldInserts(_, _)
FoldInserts(t, pairs) ==
    IF pairs = <<>>
    THEN t
    ELSE FoldInserts(insert(t, Head(pairs)[1], Head(pairs)[2]).tree, Tail(pairs))

Reorderings(seq) ==
    {[i \in DOMAIN seq |-> seq[p[i]]] : p \in Permutations(DOMAIN seq)}

(***************************************************************************)
(* Claims about the merge tree.                                            *)
(***************************************************************************)

\* C1: folding the same (path, leaf) pairs, each with a path of at least one
\* segment, into an empty tree in any order gives equivalent trees: the same
\* interior nodes, the same leaves under each, the same self-leaves.
OrderInsensitive ==
    status = "running" =>
        \A pairs \in Reorderings(log) :
            Equivalent(FoldInserts(DefaultTree, pairs), tree)

\* C2: after inserting P::a and P::a::b, in either order, P holds exactly one
\* interior node a, whose group holds a self-leaf and b, and P holds no leaf a.
SelfMergeLaw ==
    \A P \in Idents, a \in Idents, b \in Idents :
        LET bare == <<<<P>>, NameIdent(a)>>
            deep == <<<<P, a>>, NameIdent(b)>>
        IN  log \in {<<bare, deep>>, <<deep, bare>>} =>
              /\ Len(tree.root.children) = 1
              /\ LET pg == tree.root.children[1].child
                 IN  /\ Len(pg.children) = 1
                     /\ pg.children[1].kind = "Parent"
                     /\ pg.children[1].ident = a
                     /\ Len(pg.children[1].child.children) = 2
                     /\ Range(pg.children[1].child.children)
                            = {self_leaf, Leaf(NameIdent(b))}

\* C3: inserting the pair that was inserted last once more leaves the tree
\* structurally equal: no second copy of the leaf is added.
InsertTwiceIdempotent ==
    [][(/\ Len(log) > 0
        /\ Len(log') = Len(log) + 1
        /\ log'[Len(log')] = log[Len(log)]
        /\ status' = "running")
       => StructurallyEqual(tree, tree')]_vars

\* C4: no group of a reachable tree holds two interior children with the
\* same identifier.
DistinctInteriorSiblings ==
    \A g \in GroupsBelow(tree.root) :
        \A i \in DOMAIN g.children, j \in DOMAIN g.children :
            (/\ i # j
             /\ g.children[i].kind = "Parent"
             /\ g.children[j].kind = "Parent")
            => g.children[i].ident # g.children[j].ident

\* C4 witness: two inserts went down the same two-segment path, so the second
\* descent met existing interior nodes at both levels.
SharedPrefixInserted ==
    /\ Len(log) = 2
    /\ Len(log[1][1]) = 2
    /\ log[1][1] = log[2][1]
    /\ status = "running"
    /\ Len(tree.root.children) = 1
    /\ Len(tree.root.children[1].child.children) = 1

\* C5: the group of each interior node holds at most one self-leaf.
AtMostOneSelfLeaf ==
    \A g \in InteriorGroups(tree) :
        Cardinality({i \in DOMAIN g.children : g.children[i] = self_leaf}) <= 1

(***************************************************************************)
(* Claims about the walker.                                                *)
(***************************************************************************)

\* The (path, leaf) pairs a UseTree denotes: one per leaf, in depth-first,
\* left-to-right order, each with the identifiers of the enclosing paths
\* from the outermost to the innermost.
RECURSIVE Denoted(_, _)
Denoted(t, prefix) ==
    IF t.kind = "Path" THEN Denoted(t.tree, Append(prefix, t.ident))
    ELSE IF t.kind = "Group"
    THEN Concat([i \in DOMAIN t.items |-> Denoted(t.items[i], prefix)])
    ELSE IF t.kind = "Name" THEN <<<<prefix, NameIdent(t.ident)>>>>
    ELSE IF t.kind = "Rename" THEN <<<<prefix, NameRename(t.ident, t.rename)>>>>
    ELSE <<<<prefix, NameGlob>>>>

IsPrefix(s, t) == Len(s) <= Len(t) /\ s = SubSeq(t, 1, Len(s))

WalkDone == stack = <<>> /\ status = "running"

\* C6: the walker reports the pairs the tree denotes, in that order: at any
\* moment the pairs reported so far are the first ones of that sequence, and
\* when the walk has returned all of them have been reported, with the
\* current path empty again.
WalkerReportsDenotedPairs ==
    /\ IsPrefix(log, Denoted(input, <<>>))
    /\ WalkDone => (log = Denoted(input, <<>>) /\ current_path = <<>>)

\* C6 witness: the walk of std::{a, b::c, d::{e, f}} has returned, having
\* reported [std] a, [std, b] c, [std, d] e, [std, d] f.
TestVisitWalked ==
    /\ input = TestVisitTree
    /\ WalkDone
    /\ log = << <<<<"std">>, NameIdent("a")>>,
                <<<<"std", "b">>, NameIdent("c")>>,
                <<<<"std", "d">>, NameIdent("e")>>,
                <<<<"std", "d">>, NameIdent("f")>> >>

(***************************************************************************)
(* Claims about format.                                                    *)
(***************************************************************************)

\* The bytes of a text that lie in a run of imports: from the first import
\* of the run to its last, with the line breaks between them.  What stands
\* on a shebang line is no import.
InRun(text, i) ==
    \E u1 \in (LexStart(text) + 1)..i, u2 \in i..Len(text) :
        /\ text[u1].tok.t = "use"
        /\ text[u2].tok.t = "use"
        /\ \A j \in u1..u2 : text[j].tok.t \in {"use", "ws"}

\* The text with each run replaced by one 0 and every other byte by its index.
RECURSIVE SkeletonFrom(_, _)
SkeletonFrom(text, i) ==
    IF i > Len(text) THEN <<>>
    ELSE IF InRun(text, i)
    THEN (IF i > 1 /\ InRun(text, i - 1) THEN <<>> ELSE <<0>>)
            \o SkeletonFrom(text, i + 1)
    ELSE <<i>> \o SkeletonFrom(text, i + 1)

Skeleton(text) == SkeletonFrom(text, 1)

\* A sequence of numbers with each stretch of 0s replaced by one 0.
RECURSIVE CollapseFrom(_, _)
CollapseFrom(seq, i) ==
    IF i > Len(seq) THEN <<>>
    ELSE IF seq[i] = 0 /\ i > 1 /\ seq[i - 1] = 0 THEN CollapseFrom(seq, i + 1)
    ELSE <<seq[i]>> \o CollapseFrom(seq, i + 1)

Collapse(seq) == CollapseFrom(seq, 1)

\* The runs among parsed items, each as the sequence of its import items.
RECURSIVE RunsFrom(_, _, _)
RunsFrom(items, i, run) ==
    IF i > Len(items) THEN (IF run = <<>> THEN <<>> ELSE <<run>>)
    ELSE IF IsUse(items[i])
    THEN RunsFrom(items, i + 1, Append(run, items[i].token.item))
    ELSE (IF run = <<>> THEN <<>> ELSE <<run>>) \o RunsFrom(items, i + 1, <<>>)

RunsOf(text) == RunsFrom(parse_file(text).items, 1, <<>>)

\* The blocks format generated, each as the sequence of its bytes.
RECURSIVE BlocksFrom(_, _)
BlocksFrom(i, block) ==
    IF i > Len(output) THEN (IF block = <<>> THEN <<>> ELSE <<block>>)
    ELSE IF origin[i] = 0 THEN BlocksFrom(i + 1, Append(block, output[i]))
    ELSE (IF block = <<>> THEN <<>> ELSE <<block>>) \o BlocksFrom(i + 1, <<>>)

Blocks == BlocksFrom(1, <<>>)

\* The first byte of an import statement.
IsUseTok(byte) == byte.tok.t = "use" /\ byte.part = 1

\* The import statements of a text, each as its item.
StatementsOf(block) ==
    LET firsts == SelectSeq(block, IsUseTok)
    IN  [i \in DOMAIN firsts |-> firsts[i].tok.item]

HasImport(text) == RunsOf(text) # <<>>

Decorated(item) == item.attrs # <<>>

\* format has returned or panicked.
Ended == fpc \in {"done", "panicked"}

\* The file parses and none of its imports carries an attribute.
Supported ==
    /\ parse_file(file).ok
    /\ \A p \in DOMAIN parse_file(file).items :
          IsUse(parse_file(file).items[p])
              => ~Decorated(parse_file(file).items[p].token.item)

\* C7: format run on the output of a successful run succeeds and writes
\* that same text again.
FormatIdempotent ==
    pass = "second" =>
        /\ fpc \notin {"panicked", "error"}
        /\ fpc = "done" => output = file

\* C7 witness: the text a first run wrote, with a byte order mark, an item
\* and line breaks in it, went through a second run.
OutputFormattedAgain ==
    /\ pass = "second"
    /\ fpc = "done"
    /\ Len(file) > Width(Bom) + Width(OtherItem)
    /\ BomLen(file) = Width(Bom)
    /\ \E i \in DOMAIN file : file[i].tok = OtherItem
    /\ Len(output) = Len(file)

\* C8: once format has ended, the output is the input with each run of
\* imports replaced by generated text: the bytes before the first run,
\* between the runs and after the last run are copied, each once, in order,
\* and a file without imports is written out unchanged.
NonImportTextPreserved ==
    (Ended /\ Supported) =>
        /\ Len(origin) = Len(output)
        /\ \A p \in DOMAIN output : origin[p] # 0 => output[p] = file[origin[p]]
        /\ Collapse(origin) = Skeleton(file)
        /\ ~HasImport(file) => output = file

\* The category of an import, by the first segment of its path.
StatementCategory(item) == CategoryFrom(KeyName(item.tree).v)

StatementsIn(block, category) ==
    SelectSeq(StatementsOf(block), LAMBDA item : StatementCategory(item) = category)

Lines(statements) ==
    Concat([i \in DOMAIN statements |->
                TextOf(UseTok(statements[i])) \o <<Byte(WS, 1)>>])

\* C9: once format has ended, there is a block for every run, holding a
\* statement for each category the run has imports of, and every block is
\* the Standard-library statements, an empty line, the External statements,
\* an empty line, the Self-relative statements, an empty line.
CategoriesInFixedOrder ==
    (Ended /\ Supported) =>
        /\ Len(Blocks) = Len(RunsOf(file))
        /\ \A b \in DOMAIN Blocks :
              /\ Blocks[b] = Lines(StatementsIn(Blocks[b], "Std")) \o <<Byte(WS, 1)>>
                    \o Lines(StatementsIn(Blocks[b], "External")) \o <<Byte(WS, 1)>>
                    \o Lines(StatementsIn(Blocks[b], "Crate")) \o <<Byte(WS, 1)>>
              /\ \A i \in DOMAIN RunsOf(file)[b] :
                    StatementsIn(Blocks[b], StatementCategory(RunsOf(file)[b][i]))
                        # <<>>

VisAndColon(item) == <<item.vis, item.leading_colon>>

\* The buckets format holds: those of the map, and those taken out of it.
HeldBuckets ==
    (IF fpc = "idle" THEN {} ELSE UNION {use_map[c] : c \in Categories})
        \cup UNION {Range(category_maps[c]) : c \in DOMAIN category_maps}

\* C10: imports that differ in visibility or in the leading separator never
\* share a bucket, and once format has ended each key of a run has its own
\* statement, carrying that visibility and that leading separator.
DifferentKeysNeverMerged ==
    /\ \A b \in HeldBuckets : \A i \in DOMAIN b.items :
          /\ b.items[i].vis = b.key.vis
          /\ LeadingColonFrom(b.items[i].leading_colon) = b.key.leading_colon
    /\ (Ended /\ Supported) =>
          /\ Len(Blocks) = Len(RunsOf(file))
          /\ \A r \in DOMAIN RunsOf(file) :
                LET run == RunsOf(file)[r]
                    statements == StatementsOf(Blocks[r])
                IN  /\ \A i \in DOMAIN run :
                          Cardinality({s \in DOMAIN statements :
                              /\ VisAndColon(statements[s]) = VisAndColon(run[i])
                              /\ KeyName(statements[s].tree) = KeyName(run[i].tree)})
                            = 1
                    /\ Len(statements) = Cardinality({KeyOf(run[i]) : i \in DOMAIN run})

(***************************************************************************)
(* Claims about the order of keys.                                         *)
(***************************************************************************)
\* Private below restricted below public.
VisClass(vis) ==
    IF vis.k = "Inherited" THEN 0 ELSE IF vis.k = "Restricted" THEN 1 ELSE 2

\* Lexicographic comparison of two tuples of numbers of the same length.
RECURSIVE TupleLess(_, _)
TupleLess(x, y) ==
    /\ x # <<>>
    /\ \/ Head(x) < Head(y)
       \/ Head(x) = Head(y) /\ TupleLess(Tail(x), Tail(y))

\* The segments of a path as numbers, padded so that a prefix comes first.
PathRanks(segments) ==
    [i \in 1..3 |-> IF i <= Len(segments) THEN IdentRank(segments[i]) ELSE 0]

\* One restricted visibility lies before another by the text of its path.
PathTextBefore(x, y) == TupleLess(PathRanks(x.segments), PathRanks(y.segments))

\* The imports of a run that fall into a category.
RunImportsIn(run, category) ==
    SelectSeq(run, LAMBDA item : StatementCategory(item) = category)

\* C11: once format has ended, the block of a run holds, for each category,
\* the statements of the keys of the run's imports of that category, and no
\* statement comes before one whose visibility ranks lower: private below
\* restricted below public, and two restricted visibilities by the text of
\* their paths.
StatementsInClaimedKeyOrder ==
    (Ended /\ Supported) =>
        /\ Len(Blocks) = Len(RunsOf(file))
        /\ \A r \in DOMAIN RunsOf(file) : \A c \in Categories :
              LET imports == RunImportsIn(RunsOf(file)[r], c)
                  statements == StatementsIn(Blocks[r], c)
              IN  /\ {KeyOf(statements[s]) : s \in DOMAIN statements}
                        = {KeyOf(imports[i]) : i \in DOMAIN imports}
                  /\ \A i, j \in DOMAIN statements :
                        i < j =>
                            /\ VisClass(statements[i].vis) <= VisClass(statements[j].vis)
                            /\ (VisClass(statements[i].vis) = 1
                                    /\ VisClass(statements[j].vis) = 1)
                                  => ~PathTextBefore(statements[j].vis,
                                                     statements[i].vis)

(***************************************************************************)
(* Claims about the merging of a run's imports.                            *)
(***************************************************************************)
\* C12: once format has ended, the imports of a run that agree in category,
\* visibility and leading separator have exactly one statement in the block
\* of the run.
OneStatementPerVisAndColon ==
    (Ended /\ Supported) =>
        /\ Len(Blocks) = Len(RunsOf(file))
        /\ \A r \in DOMAIN RunsOf(file) : \A i \in DOMAIN RunsOf(file)[r] :
              Cardinality(
                  {s \in DOMAIN StatementsOf(Blocks[r]) :
                      /\ StatementCategory(StatementsOf(Blocks[r])[s])
                            = StatementCategory(RunsOf(file)[r][i])
                      /\ VisAndColon(StatementsOf(Blocks[r])[s])
                            = VisAndColon(RunsOf(file)[r][i])}) = 1

(***************************************************************************)
(* Claims about the categorizer.                                           *)
(***************************************************************************)
\* C13: the category of an import is Std exactly when its first segment is
\* std, core or alloc, Crate exactly when it is self, super or crate, and
\* External otherwise; a wildcard is External.
CategorizerFollowsFirstSegment ==
    answer.some =>
        /\ answer.v \in {"Std", "External", "Crate"}
        /\ answer.v = "Std" <=>
              (operands[1].kind # "Glob" /\ operands[1].ident \in {"std", "core", "alloc"})
        /\ answer.v = "Crate" <=>
              (operands[1].kind # "Glob" /\ operands[1].ident \in {"self", "super", "crate"})
        /\ operands[1].kind = "Glob" => answer.v = "External"

\* C13 witness: `core as self` was categorized, as Std.
RenamedCoreCategorized ==
    /\ operands = <<UseRename("core", "self")>>
    /\ answer = Some("Std")

(***************************************************************************)
(* Claims about imports that carry attributes.                             *)
(***************************************************************************)
\* The imports of the run format is working on.
CurrentRun ==
    IF span = None THEN <<>>
    ELSE LET items == parse_file(file).items
             inside == SelectSeq(items,
                          LAMBDA p : IsUse(p) /\ span.start <= p.start
                                        /\ p.end <= span.end)
         IN  [i \in DOMAIN inside |-> inside[i].token.item]

CurrentRunDecorated == \E i \in DOMAIN CurrentRun : Decorated(CurrentRun[i])

\* C14: a run holding an import with an attribute is never written: format
\* has stopped with a failure when the run was bucketed, the output holds
\* no byte written since the previous run was finished, not even the text
\* before this run, and no statement with an attribute is ever generated.
DecoratedRunAbortsUnwritten ==
    /\ fpc \in {"preceding", "take", "emit"} => ~CurrentRunDecorated
    /\ (fpc = "panicked" /\ CurrentRunDecorated) =>
          /\ ~last_use_span.some => output = <<>>
          /\ \A p \in DOMAIN origin : origin[p] <= PrecedingStart
          /\ output # <<>> => origin[Len(origin)] = 0
    /\ fpc \in {"tail", "done"} =>
          \A r \in DOMAIN RunsOf(file) : \A i \in DOMAIN RunsOf(file)[r] :
              ~Decorated(RunsOf(file)[r][i])
    /\ \A b \in DOMAIN Blocks : \A s \in DOMAIN StatementsOf(Blocks[b]) :
          ~Decorated(StatementsOf(Blocks[b])[s])

\* C14 witness: format stopped at a run whose second import has an
\* attribute; the item and the line break before the run were not written.
DecoratedRunAborted ==
    /\ fpc = "panicked"
    /\ file = Text(<<OtherItem, WS,
                     UseTok(ItemUse(<<>>, VisInherited, FALSE, PathAB)),
                     UseTok(ItemUse(<<"cfg">>, VisInherited, FALSE, PathAB))>>)
    /\ span = [start |-> 9, end |-> 34]
    /\ CurrentRunDecorated
    /\ output = <<>>

(***************************************************************************)
(* Claims about the arms of visit_name.                                    *)
(***************************************************************************)
\* The pair is in the tree: as a leaf of the group its path leads to, or as
\* the self leaf of that group's interior child of the same name.
PairPresent(pair) ==
    \/ [leaf |-> pair[2], under |-> pair[1]] \in Range(TreeEntries(tree))
    \/ /\ pair[2].k = "Ident"
       /\ [leaf |-> self_, under |-> Append(pair[1], pair[2].ident)]
              \in Range(TreeEntries(tree))

\* C15: no insert fails, whatever the path, the empty one included, and
\* every pair inserted is in the tree.
InsertTotal ==
    /\ status = "running"
    /\ \A i \in DOMAIN log : PairPresent(log[i])

(***************************************************************************)
(* Claims about From<Tree> for UseTree.                                    *)
(***************************************************************************)
\* An interior node with exactly one child, a plain name that is not `self`.
HasSinglePlainChild(t) ==
    \E group \in InteriorGroups(t) :
        /\ Len(group.children) = 1
        /\ group.children[1].kind = "Leaf"
        /\ group.children[1].name.k = "Ident"
        /\ group.children[1] # self_leaf

\* No path of the syntax leads to a braced group of one plain name.
RECURSIVE NoSingletonGroup(_)
NoSingletonGroup(t) ==
    IF t.kind = "Path"
    THEN /\ ~(t.tree.kind = "Group" /\ Len(t.tree.items) = 1
                /\ t.tree.items[1].kind = "Name")
         /\ NoSingletonGroup(t.tree)
    ELSE IF t.kind = "Group"
    THEN \A i \in DOMAIN t.items : NoSingletonGroup(t.items[i])
    ELSE TRUE

\* C16: a tree with an interior node that has one plain-name child and no
\* self leaf is serialized, and the syntax returned holds no braced group of
\* one plain name under a path.
SingleChildCollapsed ==
    (operands # <<>> /\ HasSinglePlainChild(operands[1])) =>
        /\ answer.some
        /\ NoSingletonGroup(answer.v)

(***************************************************************************)
(* Claims about the promotion of a leaf.                                   *)
(***************************************************************************)
InteriorChildren(group, ident) ==
    {i \in DOMAIN group.children :
        group.children[i].kind = "Parent" /\ group.children[i].ident = ident}

HasPlainLeaf(group, ident) ==
    \E i \in DOMAIN group.children : group.children[i] = Leaf(NameIdent(ident))

\* The group a path leads to through interior nodes, if there is one.
RECURSIVE GroupAt(_, _)
GroupAt(group, path) ==
    IF path = <<>> THEN Some(group)
    ELSE IF InteriorChildren(group, Head(path)) = {} THEN None
    ELSE GroupAt(group.children[Min(InteriorChildren(group, Head(path)))].child,
                 Tail(path))

\* C17: when an insert goes through a segment that its group holds only as
\* a plain-name leaf, the insert leaves the group without that leaf and with
\* an interior node of that name whose group holds a self leaf.
LeafPromoted ==
    [][\A k \in 0..(Len(current_path) - 1) :
          (/\ Len(log') = Len(log) + 1
           /\ status' = "running"
           /\ GroupAt(tree.root, SubSeq(current_path, 1, k)).some
           /\ HasPlainLeaf(GroupAt(tree.root, SubSeq(current_path, 1, k)).v,
                           current_path[k + 1])
           /\ InteriorChildren(GroupAt(tree.root, SubSeq(current_path, 1, k)).v,
                               current_path[k + 1]) = {})
          => /\ GroupAt(tree'.root, SubSeq(current_path, 1, k)).some
             /\ ~HasPlainLeaf(GroupAt(tree'.root, SubSeq(current_path, 1, k)).v,
                              current_path[k + 1])
             /\ \E i \in InteriorChildren(
                            GroupAt(tree'.root, SubSeq(current_path, 1, k)).v,
                            current_path[k + 1]) :
                   \E j \in DOMAIN GroupAt(tree'.root, SubSeq(current_path, 1, k))
                                      .v.children[i].child.children :
                       GroupAt(tree'.root, SubSeq(current_path, 1, k))
                           .v.children[i].child.children[j] = self_leaf]_vars

(***************************************************************************)
(* Claims about UseKey::cmp.                                               *)
(***************************************************************************)
Reverse(ord) ==
    IF ord = "Less" THEN "Greater" ELSE IF ord = "Greater" THEN "Less" ELSE "Equal"

\* C18: comparing two keys the other way round gives the reverse, the
\* comparison is transitive, and it is Equal only for keys with the same
\* visibility and the same leading separator.
CmpIsTotalOrder ==
    answer.some =>
        /\ answer.v.ba = Reverse(answer.v.ab)
        /\ (answer.v.ab # "Greater" /\ answer.v.bc # "Greater") => answer.v.ac # "Greater"
        /\ (answer.v.ab = "Less" /\ answer.v.bc # "Greater") => answer.v.ac = "Less"
        /\ (answer.v.ab # "Greater" /\ answer.v.bc = "Less") => answer.v.ac = "Less"
        /\ answer.v.ab = "Equal" =>
              /\ operands[1].vis = operands[2].vis
              /\ operands[1].leading_colon = operands[2].leading_colon

\* C18 witness: pub(in crate::a), private and pub(self) keys were compared:
\* the first is Greater than the second, the second Less than the third,
\* the first Greater than the third.
RestrictedKeysCompared ==
    /\ answer.some
    /\ operands[1].vis = PubInCrateA
    /\ operands[2].vis = VisInherited
    /\ operands[3].vis = PubSelf
    /\ answer.v = [ab |-> "Greater", ba |-> "Less", bc |-> "Less", ac |-> "Greater"]

(***************************************************************************)
(* Claims about the cursor of visit_name.                                  *)
(***************************************************************************)
\* Every interior node below the group holds a group.
RECURSIVE ParentsHoldGroups(_)
ParentsHoldGroups(group) ==
    \A i \in DOMAIN group.children :
        group.children[i].kind = "Parent" =>
            /\ group.children[i].child.kind = "Group"
            /\ ParentsHoldGroups(group.children[i].child)

\* The cursor is the root group or an interior node.
CursorOnInterior(w) ==
    \/ w.cur.kind = "Group"
    \/ NodeAt(w.root, w.cur.at).kind = "Parent"

\* With the cursor on a node, the final match hits no todo!() for any name.
FinalMatchDefined(w) ==
    w.cur.kind = "Node" => \A name \in Names : ~insert_name(w.root, w.cur, name).todo

\* A call of visit_name that stands at w with these segments still to go
\* keeps its cursor off the leaves and hits no todo!() of the loop.
RECURSIVE DescentDefined(_, _)
DescentDefined(w, segments) ==
    /\ ~w.todo
    /\ CursorOnInterior(w)
    /\ IF segments = <<>>
       THEN FinalMatchDefined(w)
       ELSE \E next \in {descend_step(w.root, w.cur, Head(segments))} :
               DescentDefined(next, Tail(segments))

\* C19: in every tree the inserts build each interior node holds a group;
\* at every step of a descent along the current path the cursor is the root
\* group or an interior node and no todo!() of the loop is hit; and with the
\* cursor on a node the final match hits no todo!() for any name.
CursorNeverLeaf ==
    /\ ParentsHoldGroups(tree.root)
    /\ DescentDefined(Walked(tree.root, CurRoot, FALSE), current_path)

\* C19 witness: two inserts were made at the path a::b, the second one
\* descending through the interior nodes the first one made, next to a leaf
\* named like the segment.
DescendedPastLeaf ==
    /\ status = "running"
    /\ Len(log) = 2
    /\ log[1] = <<<<"a">>, NameIdent("b")>>
    /\ log[2][1] = <<"a", "b">>
    /\ current_path = <<"a", "b">>

====
